---- MODULE Spec2Model ----
(***************************************************************************)
(* The tick pipeline of the strategy API server: app.py (/tick route),     *)
(* validators.py, business.py (P&L, the two JSON-list files, the POST to   *)
(* the mothership) and ai.py (recommendations with their fallback).        *)
(*                                                                         *)
(* JSON values are tagged records [t, v]:                                  *)
(*   null, num (v: a fixed-point integer in units of 10^-6), str, list     *)
(*   (v: a sequence of JSON values), obj (v: a record of JSON values).     *)
(* A file on disk is a JSON value, or the tag "absent" (no such file).     *)
(* Arithmetic is exact decimal arithmetic; binary floating-point error is  *)
(* not modelled.                                                           *)
(***************************************************************************)
EXTENDS Integers, Sequences, FiniteSets, TLC

\* ------------------------------------------------------------------ bounds

\* Requests the server receives in one run.
MaxTicks == 2

\* ------------------------------------------------------------------ state

VARIABLES
  POSITIONS_FILE,   \* current_positions.json
  TRADES_FILE,      \* trading_history.json
  TRADES_FILE_0,    \* trading_history.json as the server found it at start
  OPENAI_API_KEY,   \* ai.API_KEY is set
  pc,               \* per worker: where its request stands
  frame,            \* per worker: the locals of its analyze_tick call
  response,         \* per worker: the response to its last finished request
  posted,           \* the bodies POSTed to /make_trade, in order
  ticks,            \* requests received so far
  failures,         \* requests answered with another status than 200
  last_success,     \* current_positions.json as the last request answered 200 left it
  request           \* per worker: the route and the apikey header of its last request

vars == <<POSITIONS_FILE, TRADES_FILE, TRADES_FILE_0, OPENAI_API_KEY, pc, frame,
          response, posted, ticks, failures, last_success, request>>

\* ------------------------------------------------------------ JSON values

JNull == [t |-> "null", v |-> 0]
JNum(n) == [t |-> "num", v |-> n]
JStr(s) == [t |-> "str", v |-> s]
JList(s) == [t |-> "list", v |-> s]
JObj(r) == [t |-> "obj", v |-> r]
Absent == [t |-> "absent", v |-> 0]

\* One unit (1.0) in fixed point.
Unit == 10^6
\* n thousandths, e.g. Dec(1500) is 1.5.
Dec(n) == JNum(n * 1000)

IsList(x) == x.t = "list"
IsObj(x) == x.t = "obj"
Has(x, k) == IsObj(x) /\ k \in DOMAIN x.v

\* Python exceptions are values [exc |-> name]; a normal result is [exc |-> "", v |-> value].
Ok(x) == [exc |-> "", v |-> x]
Raise(e) == [exc |-> e, v |-> JNull]
Raised(r) == r.exc # ""

\* A faulty variant, for comparison: what is no number counts as 0.0.
ToFloatOrZero(x) == Ok(IF x.t = "num" THEN x.v ELSE 0)

\* float(x) of a JSON-decoded value: numbers convert; the strings of this model
\* are not numeric (ValueError); null, lists and objects are a TypeError.
ToFloat(x) ==
  IF x.t = "num" THEN Ok(x.v)
  ELSE IF x.t = "str" THEN Raise("ValueError")
  ELSE Raise("TypeError")

\* int(x): truncation toward zero, to a whole number of units.
ToInt(x) ==
  IF x.t = "num"
    THEN Ok(IF x.v >= 0 THEN (x.v \div Unit) * Unit ELSE -(((-x.v) \div Unit) * Unit))
  ELSE IF x.t = "str" THEN Raise("ValueError")
  ELSE Raise("TypeError")

\* The product of two fixed-point numbers that are whole thousandths (exact).
Mul(a, b) == (a \div 1000) * (b \div 1000)

NDIGITS == 4

\* round(x, 4): to the nearest multiple of 10^-4, ties to even.
Round(x) ==
  LET q == 10^(6 - NDIGITS)
      a == IF x >= 0 THEN x ELSE -x
      lo == a \div q
      rem == a % q
      n == IF 2 * rem > q \/ (2 * rem = q /\ lo % 2 = 1) THEN lo + 1 ELSE lo
  IN IF x >= 0 THEN n * q ELSE -(n * q)

\* --------------------------------------------------------------- validator

required_lists == <<"Positions", "Market_Summary", "market_history">>

\* The first index of the sequence of booleans `bs` that holds TRUE, or 0.
FirstTrue(bs) ==
  IF \E i \in 1..Len(bs) : bs[i]
    THEN CHOOSE i \in 1..Len(bs) : bs[i] /\ \A j \in 1..(i - 1) : ~bs[j]
    ELSE 0

\* The first field of `fields` the object lacks, or "".
FirstMissing(o, fields) ==
  LET i == FirstTrue([j \in 1..Len(fields) |-> fields[j] \notin DOMAIN o.v])
  IN IF i = 0 THEN "" ELSE fields[i]

\* The check of one list of rows: each an object holding `fields`; rows of
\* market_history also need a string `day`.  "" when the rows pass.
RowsMessage(key, rows, fields, needDay) ==
  LET bad(r) == ~IsObj(r) \/ FirstMissing(r, fields) # "" \/ (needDay /\ r.v.day.t # "str")
      i == FirstTrue([j \in 1..Len(rows) |-> bad(rows[j])])
      idx == ToString(i - 1)
  IN IF i = 0 THEN ""
     ELSE IF ~IsObj(rows[i]) THEN key \o "[" \o idx \o "] must be an object"
     ELSE IF FirstMissing(rows[i], fields) # ""
       THEN key \o "[" \o idx \o "] missing '" \o FirstMissing(rows[i], fields) \o "'"
     ELSE "market_history.day must be a date string"

\* A faulty variant, for comparison: market_history is left out of the required keys and never checked.
validate_forgets_market_history(payload) ==
  IF ~IsObj(payload) THEN <<FALSE, "Payload must be a JSON object">>
  ELSE
    LET keys == <<"Positions", "Market_Summary">>
        badKey(k) == k \notin DOMAIN payload.v \/ ~IsList(payload.v[k])
        i == FirstTrue([j \in 1..Len(keys) |-> badKey(keys[j])])
    IN IF i # 0
         THEN IF keys[i] \notin DOMAIN payload.v
                THEN <<FALSE, "Missing required field: " \o keys[i]>>
                ELSE <<FALSE, keys[i] \o " must be a list">>
       ELSE
         LET m1 == RowsMessage("Positions", payload.v.Positions.v,
                               <<"ticker", "quantity", "purchase_price">>, FALSE)
             m2 == RowsMessage("Market_Summary", payload.v.Market_Summary.v,
                               <<"ticker", "current_price", "category">>, FALSE)
         IN IF m1 # "" THEN <<FALSE, m1>>
            ELSE IF m2 # "" THEN <<FALSE, m2>>
            ELSE <<TRUE, "OK">>

\* validate_tick_payload: <<ok, message>>.
validate_tick_payload(payload) ==
  IF ~IsObj(payload) THEN <<FALSE, "Payload must be a JSON object">>
  ELSE
    LET badKey(k) == k \notin DOMAIN payload.v \/ ~IsList(payload.v[k])
        i == FirstTrue([j \in 1..Len(required_lists) |-> badKey(required_lists[j])])
    IN IF i # 0
         THEN IF required_lists[i] \notin DOMAIN payload.v
                THEN <<FALSE, "Missing required field: " \o required_lists[i]>>
                ELSE <<FALSE, required_lists[i] \o " must be a list">>
       ELSE
         LET m1 == RowsMessage("Positions", payload.v.Positions.v,
                               <<"ticker", "quantity", "purchase_price">>, FALSE)
             m2 == RowsMessage("Market_Summary", payload.v.Market_Summary.v,
                               <<"ticker", "current_price", "category">>, FALSE)
             m3 == RowsMessage("market_history", payload.v.market_history.v,
                               <<"ticker", "price", "day">>, TRUE)
         IN IF m1 # "" THEN <<FALSE, m1>>
            ELSE IF m2 # "" THEN <<FALSE, m2>>
            ELSE IF m3 # "" THEN <<FALSE, m3>>
            ELSE <<TRUE, "OK">>

\* ------------------------------------------------------- business helpers

Hashable(k) == k.t \notin {"list", "obj"}

\* The exception of the first element of the sequence of results `rs` that
\* raised, or "" when none did.
FirstRaised(rs) ==
  LET i == FirstTrue([j \in 1..Len(rs) |-> Raised(rs[j])])
  IN IF i = 0 THEN "" ELSE rs[i].exc

\* {m["ticker"]: float(m["current_price"]) for m in market_summary}: a function
\* from the tickers to their price, the last row of a ticker winning.
price_by_ticker(market_summary) ==
  LET row(m) == IF Raised(ToFloat(m.v.current_price)) THEN ToFloat(m.v.current_price)
                ELSE IF ~Hashable(m.v.ticker) THEN Raise("TypeError")
                ELSE Ok(m.v.current_price.v)
      rs == [j \in 1..Len(market_summary) |-> row(market_summary[j])]
      last(k) == CHOOSE j \in 1..Len(market_summary) :
                   /\ market_summary[j].v.ticker = k
                   /\ \A l \in (j + 1)..Len(market_summary) : market_summary[l].v.ticker # k
  IN IF FirstRaised(rs) # "" THEN Raise(FirstRaised(rs))
     ELSE Ok([k \in {market_summary[j].v.ticker : j \in 1..Len(market_summary)} |->
                rs[last(k)].v])

\* price_by_ticker.get(ticker): the price as a JSON number, or null.
PriceGet(prices, ticker) ==
  IF ticker \in DOMAIN prices THEN JNum(prices[ticker]) ELSE JNull

RECURSIVE SumTo(_, _)
SumTo(f, n) == IF n = 0 THEN 0 ELSE f[n] + SumTo(f, n - 1)

\* The quantity of a Position as the P&L loop and the snapshot read it.
Quantity(pos) == ToInt(pos.v.quantity)

\* A faulty variant, for comparison: every Position is counted, priced or not.
EvaluatedCountsAll(positions, prices) == Len(positions)

\* analyze_tick line 111: the Positions counted as evaluated.
Evaluated(positions, prices) ==
  SumTo([j \in 1..Len(positions) |->
           IF positions[j].v.ticker \in DOMAIN prices THEN 1 ELSE 0], Len(positions))

\* analyze_tick lines 104-110: one Position's share of the P&L, Ok(pnl) or the
\* exception; 0 when the ticker has no price.
PositionPnl(pos, prices) ==
  IF Raised(Quantity(pos)) THEN Quantity(pos)
  ELSE IF Raised(ToFloat(pos.v.purchase_price)) THEN ToFloat(pos.v.purchase_price)
  ELSE IF ~Hashable(pos.v.ticker) THEN Raise("TypeError")
  ELSE IF pos.v.ticker \in DOMAIN prices
    THEN Ok(Mul(prices[pos.v.ticker] - ToFloat(pos.v.purchase_price).v, Quantity(pos).v))
  ELSE Ok(0)

\* analyze_tick, the P&L loop: Ok([evaluated, total_unrealized]) or the exception.
UnrealizedPnl(positions, prices) ==
  LET rs == [j \in 1..Len(positions) |-> PositionPnl(positions[j], prices)]
  IN IF FirstRaised(rs) # "" THEN Raise(FirstRaised(rs))
     ELSE Ok([evaluated |-> Evaluated(positions, prices),
              total_unrealized |-> SumTo([j \in 1..Len(positions) |-> rs[j].v],
                                         Len(positions))])

\* One row of a snapshot: ticker, int(quantity), float(purchase_price) and the
\* ticker's current price or null.
SnapshotRow(pos, prices) ==
  IF Raised(Quantity(pos)) THEN Quantity(pos)
  ELSE IF Raised(ToFloat(pos.v.purchase_price)) THEN ToFloat(pos.v.purchase_price)
  ELSE IF ~Hashable(pos.v.ticker) THEN Raise("TypeError")
  ELSE Ok(JObj([ticker |-> pos.v.ticker,
                quantity |-> JNum(Quantity(pos).v),
                purchase_price |-> JNum(ToFloat(pos.v.purchase_price).v),
                current_price |-> PriceGet(prices, pos.v.ticker)]))

\* _build_positions_snapshot: Ok(list of rows) or the exception.
build_positions_snapshot(positions, market_summary) ==
  LET pbt == price_by_ticker(market_summary)
      rs == [j \in 1..Len(positions) |-> SnapshotRow(positions[j], pbt.v)]
  IN IF Raised(pbt) THEN pbt
     ELSE IF FirstRaised(rs) # "" THEN Raise(FirstRaised(rs))
     ELSE Ok(JList([j \in 1..Len(positions) |-> rs[j].v]))

\* A file that holds no JSON text, and a file that exists and cannot be opened
\* for reading (its write permission is apart).
Undecodable == [t |-> "undecodable", v |-> 0]
Unreadable == [t |-> "unreadable", v |-> 0]

\* path.open("r") and json.load: the decoded content, or the exception.
json_load(file) ==
  IF file = Unreadable THEN Raise("OSError")
  ELSE IF file = Undecodable THEN Raise("JSONDecodeError")
  ELSE Ok(file)

\* A faulty variant, for comparison: content that is no list is kept as the one
\* element of a list.
read_json_list_wraps(file) ==
  IF file = Absent \/ Raised(json_load(file)) THEN <<>>
  ELSE IF IsList(json_load(file).v) THEN json_load(file).v.v
  ELSE <<json_load(file).v>>

\* _read_json_list: [] when the file is absent, when reading or decoding it
\* raises, and when it holds no list; else the list it holds.
read_json_list(file) ==
  IF file = Absent THEN <<>>
  ELSE IF Raised(json_load(file)) THEN <<>>
  ELSE IF IsList(json_load(file).v) THEN json_load(file).v.v
  ELSE <<>>

\* analyze_tick up to the snapshot it writes (lines 96-114):
\* Ok([summary, snapshot]) or the exception.
AnalyzeLocal(payload) ==
  LET positions == payload.v.Positions.v
      market_summary == payload.v.Market_Summary.v
      pbt == price_by_ticker(market_summary)
      pnl == UnrealizedPnl(positions, pbt.v)
      snap == build_positions_snapshot(positions, market_summary)
  IN IF Raised(pbt) THEN pbt
     ELSE IF Raised(pnl) THEN pnl
     ELSE IF Raised(snap) THEN snap
     ELSE Ok([summary |-> JObj([positions_evaluated |-> JNum(pnl.v.evaluated * Unit),
                                unrealized_pnl |-> JNum(Round(pnl.v.total_unrealized))]),
              snapshot |-> snap.v])

\* ------------------------------------------------------ recommendations

FALLBACK_RATIONALE == "Fallback: STAY on all positions because AI was unavailable."

\* _fallback_trades: STAY, quantity 0, for every Position that is an object
\* with a ticker, in payload order.
fallback_trades(tick_payload) ==
  LET positions == IF Has(tick_payload, "Positions") /\ IsList(tick_payload.v.Positions)
                     THEN tick_payload.v.Positions.v ELSE <<>>
      kept == SelectSeq(positions, LAMBDA p : Has(p, "ticker"))
  IN [trades |-> JList([j \in 1..Len(kept) |->
                          JObj([action |-> JStr("STAY"), ticker |-> kept[j].v.ticker,
                                quantity |-> JNum(0)])]),
      rationale |-> JStr(FALLBACK_RATIONALE)]

\* _build_user_message sits outside every try block: it raises when Positions
\* cannot be iterated.
BuildUserMessageRaises(tick_payload) ==
  Has(tick_payload, "Positions") /\ tick_payload.v.Positions.t \in {"num", "null"}

\* get_trade_recommendations.  `key` is whether ai.API_KEY is set; `ai` is what
\* the assistant's SDK does on this call:
\*   [kind |-> "client_error"]   OpenAI(...) raises
\*   [kind |-> "call_error"]     the request, or reading resp.output, raises
\*   [kind |-> "no_tool_call"]   the first content item carries no tool call
\*   [kind |-> "tool_call", args |-> a]  a is the decoded arguments, or BadJson
\* The result is Ok([trades, rationale]) or the exception that escapes.
BadJson == [t |-> "badjson", v |-> 0]

\* A faulty variant, for comparison: the trades of the tool call are returned without the list check.
get_trade_recommendations_unchecked(tick_payload, key, ai) ==
  IF ~key THEN Ok(fallback_trades(tick_payload))
  ELSE IF ai.kind = "client_error" THEN Ok(fallback_trades(tick_payload))
  ELSE IF BuildUserMessageRaises(tick_payload) THEN Raise("TypeError")
  ELSE IF ai.kind \in {"call_error", "no_tool_call"} THEN Ok(fallback_trades(tick_payload))
  ELSE IF ~IsObj(ai.args) THEN Ok(fallback_trades(tick_payload))
  ELSE Ok([trades |-> IF "trades" \in DOMAIN ai.args.v THEN ai.args.v.trades
                      ELSE JList(<<>>),
           rationale |-> IF "rationale" \in DOMAIN ai.args.v THEN ai.args.v.rationale
                         ELSE JStr("No rationale provided.")])

get_trade_recommendations(tick_payload, key, ai) ==
  IF ~key THEN Ok(fallback_trades(tick_payload))
  ELSE IF ai.kind = "client_error" THEN Ok(fallback_trades(tick_payload))
  ELSE IF BuildUserMessageRaises(tick_payload) THEN Raise("TypeError")
  ELSE IF ai.kind \in {"call_error", "no_tool_call"} THEN Ok(fallback_trades(tick_payload))
  ELSE IF ~IsObj(ai.args) THEN Ok(fallback_trades(tick_payload))
  ELSE
    LET trades == IF "trades" \in DOMAIN ai.args.v THEN ai.args.v.trades ELSE JList(<<>>)
        rationale == IF "rationale" \in DOMAIN ai.args.v THEN ai.args.v.rationale
                     ELSE JStr("No rationale provided.")
    IN IF ~IsList(trades) THEN Ok(fallback_trades(tick_payload))
       ELSE Ok([trades |-> trades, rationale |-> rationale])

\* ------------------------------------------------------------ mothership

NonJson == [t |-> "nonjson", v |-> 0]
HttpStatus(n) == JNum(n * Unit)

\* obj[key] = value on a JSON object.
SetKey(obj, key, value) ==
  JObj([k \in DOMAIN obj.v \cup {key} |-> IF k = key THEN value ELSE obj.v[k]])

\* The object without one key.
DropKey(obj, key) == JObj([k \in DOMAIN obj.v \ {key} |-> obj.v[k]])

\* _post_trades_to_mothership.  `net` is what the network does:
\*   [kind |-> "transport_error"]  requests.post raises (timeout, DNS, refused)
\*   [kind |-> "response", status |-> n, body |-> b]  b a JSON value or NonJson
\* The result is Ok(data with _http_status) or the exception that escapes.
\* A faulty variant, for comparison: a transport error is caught and reported as data, like a bad body.
post_trades_swallows_transport_error(net) ==
  IF net.kind = "transport_error"
    THEN Ok(JObj([error |-> JStr("mothership unreachable"), _http_status |-> JNull]))
  ELSE
    LET data == IF net.body = NonJson
                  THEN JObj([error |-> JStr("Non-JSON response from mothership (status "
                                            \o ToString(net.status) \o ")")])
                  ELSE net.body
    IN IF ~IsObj(data) THEN Raise("TypeError")
       ELSE Ok(SetKey(data, "_http_status", HttpStatus(net.status)))

post_trades_to_mothership(net) ==
  IF net.kind = "transport_error" THEN Raise("ConnectionError")
  ELSE
    LET data == IF net.body = NonJson
                  THEN JObj([error |-> JStr("Non-JSON response from mothership (status "
                                            \o ToString(net.status) \o ")")])
                  ELSE net.body
    IN IF ~IsObj(data) THEN Raise("TypeError")
       ELSE Ok(SetKey(data, "_http_status", HttpStatus(net.status)))

\* A faulty variant, for comparison: Positions are taken from any response, whatever its status.
ReconcilesAnyStatus(mothership_resp) == "Positions" \in DOMAIN mothership_resp.v

\* analyze_tick line 129: the response is a 200 that carries Positions.
Reconciles(mothership_resp) ==
  /\ mothership_resp.v["_http_status"] = HttpStatus(200)
  /\ "Positions" \in DOMAIN mothership_resp.v

\* One row of the reconciled snapshot (lines 135-141).
MergedRow(p, prices) ==
  IF ~IsObj(p) THEN Raise("TypeError")
  ELSE IF "ticker" \notin DOMAIN p.v THEN Raise("KeyError")
  ELSE IF ~Hashable(p.v.ticker) THEN Raise("TypeError")
  ELSE IF "quantity" \notin DOMAIN p.v THEN Raise("KeyError")
  ELSE IF Raised(Quantity(p)) THEN Quantity(p)
  ELSE IF "purchase_price" \notin DOMAIN p.v THEN Raise("KeyError")
  ELSE IF Raised(ToFloat(p.v.purchase_price)) THEN ToFloat(p.v.purchase_price)
  ELSE Ok(JObj([ticker |-> p.v.ticker,
                quantity |-> JNum(Quantity(p).v),
                purchase_price |-> JNum(ToFloat(p.v.purchase_price).v),
                current_price |-> PriceGet(prices, p.v.ticker)]))

\* analyze_tick lines 130-141: the reconciled snapshot, Ok(list) or the exception.
\* Iterating a list yields its elements; an empty string or object yields
\* nothing; a non-empty one yields strings, which cannot be indexed by
\* "ticker"; a number or null cannot be iterated.
Merged(mothership_resp, market_summary) ==
  LET returned_positions == mothership_resp.v.Positions
      pbt == price_by_ticker(market_summary)
      rs == [j \in 1..Len(returned_positions.v) |-> MergedRow(returned_positions.v[j], pbt.v)]
  IN IF returned_positions.t \in {"num", "null"} THEN Raise("TypeError")
     ELSE IF Raised(pbt) THEN pbt
     ELSE IF returned_positions.t = "str"
       THEN IF returned_positions.v = "" THEN Ok(JList(<<>>)) ELSE Raise("TypeError")
     ELSE IF returned_positions.t = "obj"
       THEN IF DOMAIN returned_positions.v = {} THEN Ok(JList(<<>>)) ELSE Raise("TypeError")
     ELSE IF FirstRaised(rs) # "" THEN Raise(FirstRaised(rs))
     ELSE Ok(JList([j \in 1..Len(returned_positions.v) |-> rs[j].v]))

\* analyze_tick lines 144-153 and app.tick lines 81-85: the body of the 200.
TickResult(summary, trades, mothership_resp) ==
  JObj([result |-> JStr("success"),
        summary |-> summary,
        decisions |-> trades,
        mothership_response |-> DropKey(mothership_resp, "_http_status"),
        http_status_mothership |-> mothership_resp.v["_http_status"]])

\* app.py: a failure response.
Failure(status, message) ==
  [status |-> status, body |-> JObj([result |-> JStr("failure"), message |-> JStr(message)])]

\* _append_trade_log: the entry of one tick, and the history written back.
TradeEntry(trade_recs, rationale) ==
  JObj([ai_recommendations |-> trade_recs, rationale |-> rationale])

\* A faulty variant, for comparison: the append is atomic, made on the file as it is when written.
AppendedHistoryAtomic(history, trade_recs, rationale) ==
  JList(Append(read_json_list(TRADES_FILE), TradeEntry(trade_recs, rationale)))

\* A faulty variant, for comparison: the entry is put in front of the history.
AppendedHistoryPrepends(history, trade_recs, rationale) ==
  JList(<<TradeEntry(trade_recs, rationale)>> \o history)

\* A faulty variant, for comparison: fallback trades are not logged.
AppendedHistoryUnlessFallback(history, trade_recs, rationale) ==
  IF rationale = JStr(FALLBACK_RATIONALE) THEN JList(history)
  ELSE JList(Append(history, TradeEntry(trade_recs, rationale)))

AppendedHistory(history, trade_recs, rationale) ==
  JList(Append(history, TradeEntry(trade_recs, rationale)))

\* ----------------------------------------------------------------- inputs

PX == JObj([ticker |-> JStr("X"), quantity |-> Dec(1500), purchase_price |-> Dec(100000)])
PXi == JObj([ticker |-> JStr("X"), quantity |-> Dec(10000), purchase_price |-> Dec(100000)])
PY == JObj([ticker |-> JStr("Y"), quantity |-> Dec(2000), purchase_price |-> Dec(50000)])
PBadQty == JObj([ticker |-> JStr("X"), quantity |-> JStr("abc"), purchase_price |-> Dec(1000)])
PYBadCost == JObj([ticker |-> JStr("Y"), quantity |-> Dec(2000), purchase_price |-> JStr("n/a")])
PNoQty == JObj([ticker |-> JStr("X"), purchase_price |-> Dec(1000)])
MX == JObj([ticker |-> JStr("X"), current_price |-> Dec(110000), category |-> JStr("low")])
MY == JObj([ticker |-> JStr("Y"), current_price |-> Dec(40500), category |-> JStr("high")])
MBadPrice == JObj([ticker |-> JStr("X"), current_price |-> JNull, category |-> JStr("low")])
MNoCategory == JObj([ticker |-> JStr("X"), current_price |-> Dec(110000)])
HX == JObj([ticker |-> JStr("X"), price |-> Dec(105000), day |-> JStr("2025-01-01")])
HBadDay == JObj([ticker |-> JStr("X"), price |-> Dec(105000), day |-> Dec(3000)])

Payload(positions, market_summary, market_history) ==
  JObj([Positions |-> JList(positions), Market_Summary |-> JList(market_summary),
        market_history |-> JList(market_history)])

\* Payloads that pass validation.
ValidPayloads ==
  { Payload(<<PXi>>, <<MX>>, <<HX>>),
    Payload(<<PX, PY>>, <<MX, MY>>, <<HX>>),
    Payload(<<PX, PY>>, <<MX>>, <<>>),
    Payload(<<PBadQty>>, <<MX>>, <<HX>>),
    Payload(<<PXi, PYBadCost>>, <<MX>>, <<HX>>),
    Payload(<<PXi>>, <<MBadPrice>>, <<HX>>) }

\* Payloads that validation rejects.
InvalidPayloads ==
  { JList(<<>>),
    JObj([Positions |-> JList(<<>>)]),
    JObj([Positions |-> JList(<<PXi>>), Market_Summary |-> JList(<<MX>>)]),
    JObj([Positions |-> JStr("none"), Market_Summary |-> JList(<<MX>>)]),
    JObj([Positions |-> JList(<<PXi>>), Market_Summary |-> JList(<<MX>>),
          market_history |-> JNull]),
    Payload(<<PXi, PNoQty>>, <<MX>>, <<HX>>),
    Payload(<<JStr("X")>>, <<MX>>, <<HX>>),
    Payload(<<PXi>>, <<MX, MNoCategory>>, <<HX>>),
    Payload(<<PXi>>, <<MX>>, <<HX, HBadDay>>) }

\* Keys and headers are sequences of characters.  str.strip() removes the
\* whitespace at both ends.
Whitespace == {" ", "\t"}
Strip(s) ==
  LET keep == {i \in 1..Len(s) : s[i] \notin Whitespace}
      first == CHOOSE i \in keep : \A j \in keep : i <= j
      last == CHOOSE i \in keep : \A j \in keep : j <= i
  IN IF keep = {} THEN <<>> ELSE SubSeq(s, first, last)

\* The API_KEY line of .env, and config.API_KEY made of it; a header that
\* carries another key.
DOTENV_API_KEY == <<"k", "e", "y", " ">>
API_KEY == Strip(DOTENV_API_KEY)
WRONG_KEY == <<"b", "a", "d">>
Request(apikey, is_json, body) == [apikey |-> apikey, is_json |-> is_json, body |-> body]

\* request.get_json(silent=True) of a body that is not JSON, or is null.
None == [t |-> "none", v |-> 0]

Requests ==
  { Request(API_KEY, TRUE, b) : b \in ValidPayloads \cup InvalidPayloads }
    \cup { Request(WRONG_KEY, TRUE, Payload(<<PXi>>, <<MX>>, <<HX>>)),
           Request(API_KEY, FALSE, None),
           Request(API_KEY, TRUE, None) }

BuyX == JObj([action |-> JStr("BUY"), ticker |-> JStr("X"), quantity |-> JNum(Unit)])

Sdk(kind, args) == [kind |-> kind, args |-> args, status |-> 0, body |-> JNull]

\* What the assistant's SDK may do on one call.
AiOutcomes ==
  { Sdk("client_error", JNull),
    Sdk("call_error", JNull),
    Sdk("no_tool_call", JNull),
    Sdk("tool_call", JList(<<>>)),
    Sdk("tool_call", JObj([trades |-> JStr("none"), rationale |-> JStr("r")])),
    Sdk("tool_call", JObj([rationale |-> JStr("r")])),
    Sdk("tool_call", JObj([trades |-> JList(<<BuyX>>), rationale |-> JStr("r")])) }

\* Positions the mothership may return.
RX == JObj([ticker |-> JStr("X"), quantity |-> Dec(10000), purchase_price |-> Dec(100000)])
RXfrac == JObj([ticker |-> JStr("X"), quantity |-> Dec(3500), purchase_price |-> Dec(100000)])
RY == JObj([ticker |-> JStr("Y"), quantity |-> Dec(1000), purchase_price |-> Dec(40500)])
RNoPrice == JObj([ticker |-> JStr("X"), quantity |-> Dec(1000)])

Response(status, body) ==
  [kind |-> "response", args |-> JNull, status |-> status, body |-> body]
TransportError == [kind |-> "transport_error", args |-> JNull, status |-> 0, body |-> JNull]

\* What the network may do on one POST to /make_trade.
NetOutcomes ==
  { TransportError,
    Response(200, JObj([Positions |-> JList(<<RX>>)])),
    Response(200, JObj([Positions |-> JList(<<RXfrac, RY>>)])),
    Response(200, JObj([Positions |-> JList(<<RY, RNoPrice>>)])),
    Response(200, JObj([status |-> JStr("ok")])),
    Response(401, JObj([error |-> JStr("bad key"), Positions |-> JList(<<RY>>)])),
    Response(502, JStr("Bad Gateway")),
    Response(500, NonJson) }

\* ------------------------------------------------------------ initial state

Workers == {1, 2}

NoOutcome == [kind |-> "", args |-> JNull, status |-> 0, body |-> JNull]
NoFrame == [payload |-> JNull, trade_id |-> "", ai |-> NoOutcome, trades |-> JNull,
            rationale |-> JNull, history |-> <<>>, net |-> NoOutcome,
            mothership_resp |-> JNull]
NoResponse == [status |-> 0, body |-> JNull]
NoRequest == [route |-> "", apikey |-> <<>>]

PriorEntry == TradeEntry(JList(<<>>), JStr("earlier"))

Init ==
  /\ POSITIONS_FILE = Absent
  /\ TRADES_FILE \in {Absent, JList(<<PriorEntry>>), JObj([note |-> JStr("not a list")])}
  /\ TRADES_FILE_0 = TRADES_FILE
  /\ OPENAI_API_KEY \in BOOLEAN
  /\ pc = [p \in Workers |-> "idle"]
  /\ frame = [p \in Workers |-> NoFrame]
  /\ response = [p \in Workers |-> NoResponse]
  /\ posted = <<>>
  /\ ticks = 0
  /\ failures = 0
  /\ last_success = Absent
  /\ request = [p \in Workers |-> NoRequest]

\* ---------------------------------------------------------------- actions

\* The request of worker p ends with response r.
Finish(p, r) ==
  /\ pc' = [pc EXCEPT ![p] = "done"]
  /\ response' = [response EXCEPT ![p] = r]
  /\ failures' = IF r.status = 200 THEN failures ELSE failures + 1
  /\ last_success' = IF r.status = 200 THEN POSITIONS_FILE' ELSE last_success

ProcessingError(exc) == Failure(500, "Processing error: " \o exc)

\* A faulty variant, for comparison: every header passes.
require_apikey_any(header_val) == TRUE

\* require_apikey.
require_apikey(header_val) == Strip(header_val) = API_KEY

\* app.tick up to analyze_tick's first write: the key, the content type, the
\* JSON body, the validator; then the P&L loop, the snapshot and its write to
\* current_positions.json.
Tick(p, r) ==
  /\ pc[p] \in {"idle", "done"}
  /\ ticks < MaxTicks
  /\ ticks' = ticks + 1
  /\ request' = [request EXCEPT ![p] = [route |-> "tick", apikey |-> r.apikey]]
  /\ UNCHANGED <<TRADES_FILE, TRADES_FILE_0, OPENAI_API_KEY, posted>>
  /\ LET valid == validate_tick_payload(r.body)
         local == AnalyzeLocal(r.body)
         reject(resp, payload) ==
           /\ Finish(p, resp)
           /\ frame' = [frame EXCEPT ![p] = [NoFrame EXCEPT !.payload = payload]]
           /\ UNCHANGED POSITIONS_FILE
     IN IF ~require_apikey(r.apikey) THEN reject(Failure(401, "Unauthorized"), JNull)
        ELSE IF ~r.is_json
          THEN reject(Failure(400, "Invalid payload: Content-Type must be application/json"),
                      JNull)
        ELSE IF r.body = None
          THEN reject(Failure(400, "Invalid payload: malformed JSON"), JNull)
        ELSE IF ~valid[1] THEN reject(Failure(400, valid[2]), r.body)
        ELSE IF Raised(local) THEN reject(ProcessingError(local.exc), r.body)
        ELSE /\ POSITIONS_FILE' = local.v.snapshot
             /\ frame' = [frame EXCEPT ![p] =
                            [NoFrame EXCEPT !.payload = r.body,
                                            !.trade_id = "t" \o ToString(ticks + 1)]]
             /\ pc' = [pc EXCEPT ![p] = "ai"]
             /\ response' = [response EXCEPT ![p] = NoResponse]
             /\ UNCHANGED <<failures, last_success>>

\* analyze_tick lines 118-120: the assistant is consulted.
Recommend(p, ai) ==
  /\ pc[p] = "ai"
  /\ UNCHANGED <<POSITIONS_FILE, TRADES_FILE, TRADES_FILE_0, OPENAI_API_KEY, request, posted, ticks>>
  /\ LET ai_out == get_trade_recommendations(frame[p].payload, OPENAI_API_KEY, ai)
     IN IF Raised(ai_out)
          THEN /\ Finish(p, ProcessingError(ai_out.exc))
               /\ frame' = [frame EXCEPT ![p].ai = ai]
          ELSE /\ frame' = [frame EXCEPT ![p].ai = ai,
                                         ![p].trades = ai_out.v.trades,
                                         ![p].rationale = ai_out.v.rationale]
               /\ pc' = [pc EXCEPT ![p] = "append_read"]
               /\ UNCHANGED <<response, failures, last_success>>

\* _append_trade_log line 55: the history is read.
AppendRead(p) ==
  /\ pc[p] = "append_read"
  /\ frame' = [frame EXCEPT ![p].history = read_json_list(TRADES_FILE)]
  /\ pc' = [pc EXCEPT ![p] = "append_write"]
  /\ UNCHANGED <<POSITIONS_FILE, TRADES_FILE, TRADES_FILE_0, OPENAI_API_KEY, request, response,
                 posted, ticks, failures, last_success>>

\* _append_trade_log lines 56-61: the history read, plus this tick's entry, is
\* written back.
AppendWrite(p) ==
  /\ pc[p] = "append_write"
  /\ TRADES_FILE' = AppendedHistory(frame[p].history, frame[p].trades, frame[p].rationale)
  /\ pc' = [pc EXCEPT ![p] = "post"]
  /\ UNCHANGED <<POSITIONS_FILE, TRADES_FILE_0, OPENAI_API_KEY, request, frame, response, posted,
                 ticks, failures, last_success>>

\* analyze_tick lines 126-141 and 144-153: the trades are POSTed; without a
\* reconciliation the result is returned.
Post(p, net) ==
  /\ pc[p] = "post"
  /\ posted' = Append(posted, [id |-> frame[p].trade_id, trades |-> frame[p].trades])
  /\ UNCHANGED <<POSITIONS_FILE, TRADES_FILE, TRADES_FILE_0, OPENAI_API_KEY, request, ticks>>
  /\ LET resp == post_trades_to_mothership(net)
         merged == Merged(resp.v, frame[p].payload.v.Market_Summary.v)
     IN IF Raised(resp)
          THEN /\ Finish(p, ProcessingError(resp.exc))
               /\ frame' = [frame EXCEPT ![p].net = net]
        ELSE /\ frame' = [frame EXCEPT ![p].net = net, ![p].mothership_resp = resp.v]
             /\ IF ~Reconciles(resp.v)
                  THEN Finish(p, [status |-> 200,
                                  body |-> TickResult(AnalyzeLocal(frame[p].payload).v.summary,
                                                      frame[p].trades, resp.v)])
                ELSE IF Raised(merged) THEN Finish(p, ProcessingError(merged.exc))
                ELSE /\ pc' = [pc EXCEPT ![p] = "reconcile"]
                     /\ UNCHANGED <<response, failures, last_success>>

\* analyze_tick lines 142-153: the reconciled snapshot is written and the
\* result returned.
Reconcile(p) ==
  /\ pc[p] = "reconcile"
  /\ POSITIONS_FILE' = Merged(frame[p].mothership_resp,
                              frame[p].payload.v.Market_Summary.v).v
  /\ Finish(p, [status |-> 200,
                body |-> TickResult(AnalyzeLocal(frame[p].payload).v.summary,
                                    frame[p].trades, frame[p].mothership_resp)])
  /\ UNCHANGED <<TRADES_FILE, TRADES_FILE_0, OPENAI_API_KEY, request, frame, posted, ticks>>

\* Without a key the SDK is never called and has no outcome.
SdkOutcomes(outcomes) == IF OPENAI_API_KEY THEN outcomes ELSE {NoOutcome}

\* Requests are served one after another by one worker.
Next ==
  \/ \E r \in Requests : Tick(1, r)
  \/ \E ai \in SdkOutcomes(AiOutcomes) : Recommend(1, ai)
  \/ AppendRead(1)
  \/ AppendWrite(1)
  \/ \E net \in NetOutcomes : Post(1, net)
  \/ Reconcile(1)

Spec == Init /\ [][Next]_vars

\* The inputs of the concurrent runs.
ConcRequests ==
  { Request(API_KEY, TRUE, Payload(<<PXi>>, <<MX>>, <<HX>>)),
    Request(API_KEY, TRUE, Payload(<<PX, PY>>, <<MX>>, <<>>)) }
ConcAiOutcomes ==
  { Sdk("call_error", JNull),
    Sdk("tool_call", JObj([trades |-> JList(<<BuyX>>), rationale |-> JStr("r")])) }
ConcNetOutcomes ==
  { Response(200, JObj([status |-> JStr("ok")])),
    Response(200, JObj([Positions |-> JList(<<RX>>)])) }

\* Two workers serve requests at once (Flask's threaded server): their steps
\* interleave at every file access and every external call.
NextConc ==
  \E p \in Workers :
    \/ \E r \in ConcRequests : Tick(p, r)
    \/ \E ai \in SdkOutcomes(ConcAiOutcomes) : Recommend(p, ai)
    \/ AppendRead(p)
    \/ AppendWrite(p)
    \/ \E net \in ConcNetOutcomes : Post(p, net)
    \/ Reconcile(p)

SpecConc == Init /\ [][NextConc]_vars

\* app.healthcheck: the key, then the fixed answer; it reads and writes no file.
Healthcheck(p, header_val) ==
  /\ pc[p] \in {"idle", "done"}
  /\ request' = [request EXCEPT ![p] = [route |-> "healthcheck", apikey |-> header_val]]
  /\ pc' = [pc EXCEPT ![p] = "done"]
  /\ frame' = [frame EXCEPT ![p] = NoFrame]
  /\ response' = [response EXCEPT ![p] =
                    IF ~require_apikey(header_val) THEN Failure(401, "Unauthorized")
                    ELSE [status |-> 200,
                          body |-> JObj([result |-> JStr("success"),
                                         message |-> JStr("Ready to Trade")])]]
  /\ UNCHANGED <<POSITIONS_FILE, TRADES_FILE, TRADES_FILE_0, OPENAI_API_KEY, posted, ticks,
                 failures, last_success>>

\* The apikey headers of the runs on both authenticated routes: the key, the
\* key between blanks, another key, a part of the key, a blank, and no header
\* (request.headers.get("apikey", "") is then the empty string).
AuthHeaders ==
  { API_KEY, <<" ">> \o API_KEY \o <<"\t">>, WRONG_KEY, SubSeq(API_KEY, 1, Len(API_KEY) - 1),
    API_KEY \o <<"s">>, <<" ">>, <<>> }
AuthRequests ==
  { Request(h, TRUE, b) :
      h \in AuthHeaders,
      b \in { Payload(<<PXi>>, <<MX>>, <<HX>>), Payload(<<PBadQty>>, <<MX>>, <<HX>>),
              JObj([Positions |-> JList(<<>>)]), None } }
    \cup { Request(h, FALSE, None) : h \in AuthHeaders }

\* The server with its two authenticated routes, one worker.
NextAuth ==
  \/ \E header_val \in AuthHeaders : Healthcheck(1, header_val)
  \/ \E r \in AuthRequests : Tick(1, r)
  \/ \E ai \in SdkOutcomes(ConcAiOutcomes) : Recommend(1, ai)
  \/ AppendRead(1)
  \/ AppendWrite(1)
  \/ \E net \in ConcNetOutcomes : Post(1, net)
  \/ Reconcile(1)

SpecAuth == Init /\ [][NextAuth]_vars

\* app.dashboard, load_dashboard_data: both stores are read and rendered; no
\* key is asked for and nothing is written.
Dashboard(p) ==
  /\ pc[p] \in {"idle", "done"}
  /\ request' = [request EXCEPT ![p] = [route |-> "dashboard", apikey |-> <<>>]]
  /\ pc' = [pc EXCEPT ![p] = "done"]
  /\ frame' = [frame EXCEPT ![p] = NoFrame]
  /\ response' = [response EXCEPT ![p] =
                    [status |-> 200,
                     body |-> JObj([positions |-> JList(read_json_list(POSITIONS_FILE)),
                                    trades |-> JList(read_json_list(TRADES_FILE))])]]
  /\ UNCHANGED <<POSITIONS_FILE, TRADES_FILE, TRADES_FILE_0, OPENAI_API_KEY, posted, ticks,
                 failures, last_success>>

\* What the server may find in a store's file when it starts.
StoreContents ==
  { Absent, Unreadable, Undecodable, JList(<<PriorEntry>>),
    JObj([note |-> JStr("not a list")]), JStr("[]") }

InitStores ==
  /\ POSITIONS_FILE \in StoreContents
  /\ TRADES_FILE \in StoreContents
  /\ TRADES_FILE_0 = TRADES_FILE
  /\ OPENAI_API_KEY \in BOOLEAN
  /\ pc = [p \in Workers |-> "idle"]
  /\ frame = [p \in Workers |-> NoFrame]
  /\ response = [p \in Workers |-> NoResponse]
  /\ posted = <<>>
  /\ ticks = 0
  /\ failures = 0
  /\ last_success = Absent
  /\ request = [p \in Workers |-> NoRequest]

StoreRequests ==
  { Request(API_KEY, TRUE, Payload(<<PXi>>, <<MX>>, <<HX>>)),
    Request(API_KEY, TRUE, Payload(<<PBadQty>>, <<MX>>, <<HX>>)) }

\* The server started on stores of any content: ticks and the dashboard, one
\* worker.
NextStores ==
  \/ Dashboard(1)
  \/ \E r \in StoreRequests : Tick(1, r)
  \/ \E ai \in SdkOutcomes(ConcAiOutcomes) : Recommend(1, ai)
  \/ AppendRead(1)
  \/ AppendWrite(1)
  \/ \E net \in ConcNetOutcomes : Post(1, net)
  \/ Reconcile(1)

SpecStores == InitStores /\ [][NextStores]_vars

\* ----------------------------------------------------------------- claims

\* No request is in flight.
Quiet == pc[1] \in {"idle", "done"}

\* The history the server started with, as _read_json_list reads it.
History0 == read_json_list(TRADES_FILE_0)

\* The payload, the Positions and the Market_Summary of the worker's request.
PayloadOf(p) == frame[p].payload
PositionsOf(p) == frame[p].payload.v.Positions.v
MarketSummaryOf(p) == frame[p].payload.v.Market_Summary.v

\* C1: with requests served one after another, after N ticks that were all
\* answered 200 the history holds the initial history, unchanged, followed by
\* exactly N entries, the i-th holding the trades of the i-th POST to the
\* mothership.
C1_AppendOnly ==
  (Quiet /\ failures = 0) =>
    LET h == read_json_list(TRADES_FILE)
        n == Len(History0)
    IN /\ ticks > 0 => IsList(TRADES_FILE)
       /\ Len(h) = n + ticks
       /\ SubSeq(h, 1, n) = History0
       /\ Len(posted) = ticks
       /\ \A i \in 1..ticks :
            /\ posted[i].id = "t" \o ToString(i)
            /\ h[n + i].v.ai_recommendations = posted[i].trades

C1_Witness ==
  /\ Quiet /\ failures = 0 /\ ticks = 2
  /\ Len(History0) = 1
  /\ posted[1].trades # posted[2].trades

\* The Positions the mothership returned, with the current price of this
\* tick's Market_Summary attached and every other field as returned.
Enriched(returned, market_summary) ==
  JList([j \in 1..Len(returned) |->
           JObj([ticker |-> returned[j].v.ticker,
                 quantity |-> returned[j].v.quantity,
                 purchase_price |-> returned[j].v.purchase_price,
                 current_price |-> PriceGet(price_by_ticker(market_summary).v,
                                            returned[j].v.ticker)])])

\* C2: when the mothership answered 200 with Positions and analyze_tick
\* returned, the snapshot store equals the returned Positions (ticker,
\* quantity and purchase_price as returned) with this tick's current prices.
C2_SnapshotEqualsReturned ==
  (/\ pc[1] = "done" /\ response[1].status = 200
   /\ frame[1].net.kind = "response" /\ frame[1].net.status = 200
   /\ Has(frame[1].net.body, "Positions"))
  => POSITIONS_FILE = Enriched(frame[1].net.body.v.Positions.v, MarketSummaryOf(1))

\* C3: a tick whose POST met a transport error is answered with a failure and
\* no result, and the snapshot of step 2 and the history entry of step 4 are
\* in the stores when it ends.
C3_TransportFailure ==
  (pc[1] = "done" /\ frame[1].net.kind = "transport_error") =>
    /\ response[1].status = 500
    /\ DOMAIN response[1].body.v = {"result", "message"}
    /\ response[1].body.v.result = JStr("failure")
    /\ POSITIONS_FILE = build_positions_snapshot(PositionsOf(1), MarketSummaryOf(1)).v
    /\ IsList(TRADES_FILE) /\ Len(TRADES_FILE.v) = Len(frame[1].history) + 1
    /\ TRADES_FILE.v[Len(TRADES_FILE.v)] = TradeEntry(frame[1].trades, frame[1].rationale)

C3_Witness ==
  /\ pc[1] = "done" /\ frame[1].net.kind = "transport_error"
  /\ Len(TRADES_FILE.v) = 2

\* The payload is an object whose only fault is that it has no market_history.
LacksOnlyMarketHistory(payload) ==
  /\ IsObj(payload)
  /\ "market_history" \notin DOMAIN payload.v
  /\ Has(payload, "Positions") /\ IsList(payload.v.Positions)
  /\ Has(payload, "Market_Summary") /\ IsList(payload.v.Market_Summary)

\* The messages of the validator that name market_history.
NamesMarketHistory(message) ==
  message \in { JStr("Missing required field: market_history"),
                JStr("market_history must be a list"),
                JStr("market_history.day must be a date string") }

\* C4 as stated: a rejected payload is answered 400 with the validator's
\* reason, and every payload object without market_history is rejected with a
\* message that names market_history.
C4_MissingHistoryNamed ==
  (pc[1] = "done" /\ PayloadOf(1) # JNull /\ ~validate_tick_payload(PayloadOf(1))[1]) =>
    /\ response[1] = Failure(400, validate_tick_payload(PayloadOf(1))[2])
    /\ (IsObj(PayloadOf(1)) /\ "market_history" \notin DOMAIN PayloadOf(1).v)
         => NamesMarketHistory(response[1].body.v.message)

\* C4 as amended: the step that receives a payload the validator rejects, or
\* one whose only fault is the missing market_history, ends the request with a
\* 400 carrying the validator's reason, runs nothing of analyze_tick and leaves
\* both stores as they were; when market_history is the only fault the reason
\* is "Missing required field: market_history".
C4_RejectedUntouched ==
  [][ LET payload == frame'[1].payload
          rejected == ~validate_tick_payload(payload)[1] \/ LacksOnlyMarketHistory(payload)
      IN (ticks' = ticks + 1 /\ payload # JNull /\ rejected) =>
           /\ pc'[1] = "done"
           /\ response'[1] = Failure(400, validate_tick_payload(payload)[2])
           /\ frame'[1] = [NoFrame EXCEPT !.payload = payload]
           /\ POSITIONS_FILE' = POSITIONS_FILE
           /\ TRADES_FILE' = TRADES_FILE
           /\ posted' = posted
           /\ LacksOnlyMarketHistory(payload) =>
                response'[1].body.v.message = JStr("Missing required field: market_history")
    ]_vars

C4_Witness ==
  /\ pc[1] = "done" /\ LacksOnlyMarketHistory(PayloadOf(1))
  /\ response[1].status = 400
  /\ POSITIONS_FILE # Absent

\* The worker's request has passed step 2 (the snapshot write).
PastSnapshot(p) == frame[p].trade_id # ""

\* The request has a fallback trigger: no key, or the SDK failed to construct,
\* raised, answered without a tool call, or gave trades that are no list.
FallbackTrigger(p) ==
  \/ ~OPENAI_API_KEY
  \/ frame[p].ai.kind \in {"client_error", "call_error", "no_tool_call"}
  \/ /\ frame[p].ai.kind = "tool_call"
     /\ Has(frame[p].ai.args, "trades") /\ ~IsList(frame[p].ai.args.v.trades)

StayAll(positions) ==
  JList([j \in 1..Len(positions) |->
           JObj([action |-> JStr("STAY"), ticker |-> positions[j].v.ticker,
                 quantity |-> JNum(0)])])

\* C5: once the assistant step is over, get_trade_recommendations has returned
\* (no request ends there), and on every fallback trigger it returned one
\* STAY/0 trade per Position of the payload, in order, with the fixed rationale.
C5_Fallback ==
  (PastSnapshot(1) /\ pc[1] # "ai") =>
    /\ frame[1].trades # JNull
    /\ FallbackTrigger(1) =>
         /\ frame[1].trades = StayAll(PositionsOf(1))
         /\ frame[1].rationale = JStr(FALLBACK_RATIONALE)

C5_Witness ==
  /\ pc[1] = "append_read" /\ OPENAI_API_KEY
  /\ frame[1].ai.kind = "tool_call" /\ FallbackTrigger(1)
  /\ Len(PositionsOf(1)) = 2

\* The price of a ticker in a Market_Summary, as fixed point.
CurrentPrice(market_summary, ticker) ==
  LET j == CHOOSE j \in 1..Len(market_summary) :
             /\ market_summary[j].v.ticker = ticker
             /\ \A l \in (j + 1)..Len(market_summary) : market_summary[l].v.ticker # ticker
  IN market_summary[j].v.current_price.v

Priced(market_summary, pos) ==
  \E j \in 1..Len(market_summary) : market_summary[j].v.ticker = pos.v.ticker

\* C6: when every Position has a Market_Summary price, unrealized_pnl is the
\* sum of (current_price - purchase_price) * quantity, the quantity as given
\* in the payload, rounded to 4 decimals.
C6_PnlOfGivenQuantities ==
  (/\ pc[1] = "done" /\ response[1].status = 200
   /\ \A j \in 1..Len(PositionsOf(1)) : Priced(MarketSummaryOf(1), PositionsOf(1)[j]))
  => response[1].body.v.summary.v.unrealized_pnl =
       JNum(Round(SumTo([j \in 1..Len(PositionsOf(1)) |->
                           Mul(CurrentPrice(MarketSummaryOf(1), PositionsOf(1)[j].v.ticker)
                                 - PositionsOf(1)[j].v.purchase_price.v,
                               PositionsOf(1)[j].v.quantity.v)],
                        Len(PositionsOf(1)))))

\* A coercion of the payload fails.
CoercionFails(payload) ==
  \/ \E j \in 1..Len(payload.v.Positions.v) :
       \/ payload.v.Positions.v[j].v.quantity.t # "num"
       \/ payload.v.Positions.v[j].v.purchase_price.t # "num"
  \/ \E j \in 1..Len(payload.v.Market_Summary.v) :
       payload.v.Market_Summary.v[j].v.current_price.t # "num"

\* C7: positions_evaluated is the number of Positions whose ticker has a
\* Market_Summary row, unrealized_pnl sums those Positions only, and a
\* validated payload fails before the snapshot only when a coercion fails,
\* never because a Position has no price.
C7_UnpricedSkipped ==
  /\ (pc[1] = "done" /\ response[1].status = 200) =>
       LET priced == {j \in 1..Len(PositionsOf(1)) :
                        Priced(MarketSummaryOf(1), PositionsOf(1)[j])}
           pnl == [j \in 1..Len(PositionsOf(1)) |->
                     IF j \in priced
                       THEN Mul(CurrentPrice(MarketSummaryOf(1), PositionsOf(1)[j].v.ticker)
                                  - PositionsOf(1)[j].v.purchase_price.v,
                                Quantity(PositionsOf(1)[j]).v)
                       ELSE 0]
       IN /\ response[1].body.v.summary.v.positions_evaluated =
               JNum(Cardinality(priced) * Unit)
          /\ response[1].body.v.summary.v.unrealized_pnl =
               JNum(Round(SumTo(pnl, Len(PositionsOf(1)))))
  /\ (/\ pc[1] = "done" /\ ~PastSnapshot(1) /\ PayloadOf(1) # JNull
      /\ validate_tick_payload(PayloadOf(1))[1])
       => CoercionFails(PayloadOf(1))

C7_Witness ==
  /\ pc[1] = "done" /\ response[1].status = 200
  /\ Len(PositionsOf(1)) = 2
  /\ response[1].body.v.summary.v.positions_evaluated = JNum(Unit)
  /\ response[1].body.v.summary.v.unrealized_pnl # JNum(0)

\* The body _post_trades_to_mothership makes of a response that is not JSON.
Synthesized(status) ==
  JObj([error |-> JStr("Non-JSON response from mothership (status "
                       \o ToString(status) \o ")")])

\* C8: whenever the mothership returned an HTTP response, whatever its status
\* and body, the tick is answered 200 "success" with the status observed and
\* the parsed (or synthesized) body.
C8_AnyResponseSucceeds ==
  (pc[1] = "done" /\ frame[1].net.kind = "response") =>
    /\ response[1].status = 200
    /\ response[1].body.v.result = JStr("success")
    /\ response[1].body.v.http_status_mothership = HttpStatus(frame[1].net.status)
    /\ response[1].body.v.mothership_response =
         IF frame[1].net.body = NonJson THEN Synthesized(frame[1].net.status)
         ELSE frame[1].net.body

\* C9 as stated: between requests the snapshot store is as the last request
\* answered 200 left it.
C9_LastSuccessfulTick == Quiet => POSITIONS_FILE = last_success

\* The remote answered the worker's request with a 200 carrying Positions.
RemotePositions(p) ==
  /\ frame[p].net.kind = "response" /\ frame[p].net.status = 200
  /\ Has(frame[p].net.body, "Positions")

\* C9 as amended, requests served one after another: a request that ends
\* before step 2 leaves the snapshot store unchanged; any other leaves its own
\* data there, failed or not: the reconciled Positions when it was answered
\* 200 and the remote returned Positions with a 200, else its enriched snapshot.
C9_LastWrittenTick ==
  [][ pc'[1] = "done" =>
        IF frame'[1].trade_id = ""
          THEN POSITIONS_FILE' = POSITIONS_FILE
          ELSE POSITIONS_FILE' =
                 IF response'[1].status = 200 /\ RemotePositions(1)'
                   THEN Merged(frame'[1].mothership_resp,
                               frame'[1].payload.v.Market_Summary.v).v
                   ELSE build_positions_snapshot(frame'[1].payload.v.Positions.v,
                                                 frame'[1].payload.v.Market_Summary.v).v
    ]_vars

C9_Witness ==
  /\ pc[1] = "done" /\ PastSnapshot(1) /\ response[1].status = 500
  /\ POSITIONS_FILE # last_success
  /\ last_success # Absent

\* Both workers' requests were answered 200 and had read the same history.
BothReadSame ==
  /\ \A p \in Workers : pc[p] = "done" /\ response[p].status = 200
  /\ frame[1].history = frame[2].history

\* C10: two ticks that overlap can both read the history before either writes
\* it; when both have been answered 200 the history is then the one they read
\* plus the entry of one of them only: the other entry is lost.
C10_LostUpdate ==
  BothReadSame =>
    \E p \in Workers :
      TRADES_FILE = JList(Append(frame[p].history,
                                 TradeEntry(frame[p].trades, frame[p].rationale)))

C10_Witness ==
  /\ BothReadSame
  /\ TradeEntry(frame[1].trades, frame[1].rationale)
       # TradeEntry(frame[2].trades, frame[2].rationale)
  /\ TRADES_FILE = JList(Append(frame[2].history,
                                TradeEntry(frame[2].trades, frame[2].rationale)))
  /\ Len(TRADES_FILE.v) = Len(History0) + 1

\* A request was received in this step: a tick, or a healthcheck.
Received(p) == ticks' = ticks + 1 \/ request'[p].route = "healthcheck"

\* C11: on both routes a request whose apikey header is not the configured
\* key (the blanks around it aside) is answered 401 "failure"; nothing of the
\* validation or of the tick runs, so both stores stay as they were and nothing
\* is posted.  A request that carries the key passes: it is not answered 401,
\* and a healthcheck is answered 200 "success".
C11_AuthBoundary ==
  [][ Received(1) =>
        /\ Strip(request'[1].apikey) # API_KEY =>
             /\ pc'[1] = "done"
             /\ response'[1].status = 401
             /\ response'[1].body.v.result = JStr("failure")
             /\ frame'[1] = NoFrame
             /\ POSITIONS_FILE' = POSITIONS_FILE
             /\ TRADES_FILE' = TRADES_FILE
             /\ posted' = posted
        /\ request'[1].apikey = API_KEY =>
             /\ response'[1].status # 401
             /\ request'[1].route = "healthcheck" =>
                  /\ response'[1].status = 200
                  /\ response'[1].body.v.result = JStr("success")
    ]_vars

\* A tick with another key was refused after an earlier tick had filled both
\* stores, and left them filled.
C11_Witness ==
  /\ pc[1] = "done" /\ request[1] = [route |-> "tick", apikey |-> WRONG_KEY]
  /\ response[1].status = 401
  /\ POSITIONS_FILE # Absent /\ Len(posted) = 1

\* The request received in this step passes validation and numeric coercion.
PassesToSnapshot(p) ==
  /\ ticks' = ticks + 1
  /\ frame'[p].payload # JNull
  /\ validate_tick_payload(frame'[p].payload)[1]
  /\ ~CoercionFails(frame'[p].payload)

\* This tick's entry of the history.
EntryOf(p) == TradeEntry(frame[p].trades, frame[p].rationale)

\* C12: a tick that passes validation and coercion goes through its steps in
\* one order, each once: the enriched snapshot is written; then the assistant
\* is consulted; then one entry is appended to the history read, fallback or
\* not; then the trades are POSTed once.  No other step appends or POSTs, and
\* a tick that ended after its snapshot write, answered 200 or 500, has its
\* one entry at the end of the history and its one POST at the end of the log.
C12_StepOrder ==
  /\ [][  /\ PassesToSnapshot(1) =>
               /\ pc'[1] = "ai"
               /\ POSITIONS_FILE' = build_positions_snapshot(PositionsOf(1)', MarketSummaryOf(1)').v
               /\ frame'[1].trades = JNull
               /\ TRADES_FILE' = TRADES_FILE /\ posted' = posted
          /\ pc[1] = "ai" =>
               /\ pc'[1] = "append_read"
               /\ frame'[1].trades # JNull
               /\ POSITIONS_FILE' = POSITIONS_FILE
               /\ TRADES_FILE' = TRADES_FILE /\ posted' = posted
          /\ pc[1] = "append_read" =>
               /\ pc'[1] = "append_write"
               /\ POSITIONS_FILE' = POSITIONS_FILE
               /\ TRADES_FILE' = TRADES_FILE /\ posted' = posted
          /\ pc[1] = "append_write" =>
               /\ pc'[1] = "post"
               /\ TRADES_FILE' = JList(Append(read_json_list(TRADES_FILE), EntryOf(1)))
               /\ POSITIONS_FILE' = POSITIONS_FILE /\ posted' = posted
          /\ pc[1] = "post" =>
               /\ pc'[1] \in {"reconcile", "done"}
               /\ posted' = Append(posted, [id |-> frame[1].trade_id, trades |-> frame[1].trades])
               /\ POSITIONS_FILE' = POSITIONS_FILE /\ TRADES_FILE' = TRADES_FILE
          /\ pc[1] = "reconcile" =>
               /\ pc'[1] = "done"
               /\ TRADES_FILE' = TRADES_FILE /\ posted' = posted
          /\ TRADES_FILE' # TRADES_FILE => pc[1] = "append_write"
          /\ posted' # posted => pc[1] = "post"
          /\ pc'[1] = "ai" => PassesToSnapshot(1)
          /\ pc[1] \notin {"idle", "done"} =>
               /\ (frame[1].trades # JNull => frame'[1].trades = frame[1].trades)
               /\ frame'[1].payload = frame[1].payload
        ]_vars
  /\ []((pc[1] = "done" /\ PastSnapshot(1)) =>
          /\ response[1].status \in {200, 500}
          /\ IsList(TRADES_FILE) /\ Len(TRADES_FILE.v) > 0
          /\ TRADES_FILE.v[Len(TRADES_FILE.v)] = EntryOf(1)
          /\ Cardinality({i \in DOMAIN posted : posted[i].id = frame[1].trade_id}) = 1
          /\ posted[Len(posted)] = [id |-> frame[1].trade_id, trades |-> frame[1].trades])

\* The second tick fell back, logged its entry all the same, and failed at its
\* one POST.
C12_Witness ==
  /\ pc[1] = "done" /\ PastSnapshot(1) /\ ticks = 2
  /\ FallbackTrigger(1) /\ frame[1].rationale = JStr(FALLBACK_RATIONALE)
  /\ response[1].status = 500
  /\ Len(posted) = 2 /\ Len(read_json_list(TRADES_FILE)) = Len(History0) + 2

\* The request received in this step passes validation and has a quantity, a
\* purchase_price or a current_price that does not coerce.
FailsCoercion(p) ==
  /\ ticks' = ticks + 1
  /\ frame'[p].payload # JNull
  /\ validate_tick_payload(frame'[p].payload)[1]
  /\ CoercionFails(frame'[p].payload)

\* C13: a validated payload in which the coercion of a quantity, a
\* purchase_price or a current_price fails ends its tick as a processing
\* failure (500); the snapshot store and the history store are as they were
\* before the request, the assistant is not called and nothing is POSTed.
C13_CoercionBeforeWrites ==
  [][ FailsCoercion(1) =>
        /\ pc'[1] = "done"
        /\ response'[1].status = 500
        /\ response'[1].body.v.result = JStr("failure")
        /\ POSITIONS_FILE' = POSITIONS_FILE
        /\ TRADES_FILE' = TRADES_FILE
        /\ posted' = posted
        /\ frame'[1] = [NoFrame EXCEPT !.payload = frame'[1].payload]
    ]_vars

\* After a tick that filled both stores, a tick whose second Position, one
\* without a market price, has a purchase_price that does not coerce has failed.
C13_Witness ==
  /\ pc[1] = "done" /\ response[1].status = 500 /\ ~PastSnapshot(1)
  /\ PayloadOf(1) # JNull /\ Len(PositionsOf(1)) = 2
  /\ PositionsOf(1)[2].v.purchase_price.t # "num"
  /\ ~Priced(MarketSummaryOf(1), PositionsOf(1)[2])
  /\ POSITIONS_FILE # Absent /\ Len(posted) = 1

\* The list a file holds, or the empty sequence when it holds none.
ListOrEmpty(file) == IF file.t = "list" THEN file.v ELSE <<>>

\* The file is there and readable, and its content is not a JSON array.
NotAnArray(file) == file.t \notin {"absent", "unreadable", "list"}

\* C14: a read of a store never fails and gives the empty sequence when the
\* file is absent, unreadable, undecodable or holds no array: the dashboard is
\* rendered from it and the tick goes on to its write.  So the append of the
\* first tick that finds a history file whose content is no array leaves a
\* history of one entry, this tick's, and nothing of what the file held.
C14_ReadNeverRaises ==
  [][ /\ request'[1].route = "dashboard" =>
           /\ pc'[1] = "done"
           /\ response'[1] =
                [status |-> 200,
                 body |-> JObj([positions |-> JList(ListOrEmpty(POSITIONS_FILE)),
                                trades |-> JList(ListOrEmpty(TRADES_FILE))])]
           /\ POSITIONS_FILE' = POSITIONS_FILE /\ TRADES_FILE' = TRADES_FILE
      /\ pc[1] = "append_read" =>
           /\ pc'[1] = "append_write"
           /\ frame'[1].history = ListOrEmpty(TRADES_FILE)
      /\ (pc[1] = "append_write" /\ NotAnArray(TRADES_FILE)) =>
           /\ TRADES_FILE' = JList(<<EntryOf(1)>>)
           /\ Len(read_json_list(TRADES_FILE')) = 1
    ]_vars

\* The first tick found a history file that held a JSON object, and has
\* replaced it by a history of its one entry.
C14_Witness ==
  /\ pc[1] = "post" /\ ticks = 1
  /\ IsObj(TRADES_FILE_0)
  /\ TRADES_FILE = JList(<<EntryOf(1)>>)

====
